---- MODULE Spec2Model ----
(***************************************************************************)
(* Dead-reckoning node of ros2_ws/src/control/control/localization.py.     *)
(*                                                                         *)
(* Units.  The node computes with floats; the model computes the same      *)
(* expressions exactly, over integers, in units chosen so that every       *)
(* operation of the code is exact:                                         *)
(*   time    1 unit = 5 ms        (integration_period 0.01 s = 2 units)    *)
(*   angle   1 unit = pi/2 rad    (math.pi = 2 units; cos and sin of a     *)
(*                                 whole number of quarter turns are       *)
(*                                 -1, 0 or 1)                             *)
(*   length  1 unit = 0.5 mm      (wheel_base 0.119 m = 238 units,         *)
(*                                 wheel_radius 0.027 m = 54 units)        *)
(* Wheel speeds are drawn from multiples of 119 angle units per time unit, *)
(* which makes the division by wheel_base and the halving of v_r + v_l     *)
(* exact.                                                                  *)
(***************************************************************************)
EXTENDS Integers, Sequences, FiniteSets, TLC

\* ---------------------------------------------------------------- bounds
\* Largest simulation time (in time units) the simulator publishes.
MaxTime == 4
\* Number of /simulationTime samples the simulator publishes in one run.
MaxSamples == 3
\* Angles -WrapRange .. WrapRange (in angle units) are tried as inputs of wrap_to_pi.
WrapRange == 12

\* ------------------------------------------------------- node parameters
wheel_base == 238
wheel_radius == 54
integration_period == 2

\* math.pi in angle units.
PI == 2
\* Time units per second, and rclpy's nanoseconds per second.
UnitsPerSecond == 200
S_TO_NS == 1000000000

\* Values a wheel encoder sample carries (msg.data of /VelocityEncR, /VelocityEncL).
WheelSpeeds == {-119, 0, 119}
\* Values a /simulationTime sample carries; not required to be ordered.
SimTimes == 0 .. MaxTime

\* Python's None and a set value of an optional attribute.
None == << >>
Some(v) == << v >>
Val(o) == o[1]

VARIABLES
    x, y, theta,            \* self.x, self.y, self.theta
    omega_r, omega_l,       \* self.omega_r, self.omega_l
    sim_time,               \* self.sim_time       (None or Some(t))
    last_sim_time,          \* self.last_sim_time  (None or Some(t))
    pc,                     \* position of the timer callback update_odometry
    returned,               \* the return statement the last completed tick took
    dt, V, Omega, quat,     \* locals of update_odometry
    simQueue,               \* /simulationTime samples received, callback not yet run
    published,              \* number of samples the simulator has published
    odom_pub,               \* messages published on /odom, oldest first
    tf_broadcaster,         \* transforms sent, oldest first
    clockLog                \* history: every assignment to last_sim_time

vars == << x, y, theta, omega_r, omega_l, sim_time, last_sim_time, pc, returned,
           dt, V, Omega, quat, simQueue, published, odom_pub, tf_broadcaster,
           clockLog >>

pose == << x, y, theta >>
inputs == << omega_r, omega_l, sim_time >>
locals == << dt, V, Omega, quat >>
outputs == << odom_pub, tf_broadcaster >>
env == << simQueue, published >>

\* ------------------------------------------------------------ arithmetic
\* np.fmod: remainder with the sign of the dividend (C fmod).
fmod(a, b) == IF a >= 0 THEN a % b ELSE -((-a) % b)

\* math.cos and math.sin of a whole number of quarter turns.
cos(t) == CASE t % 4 = 0 -> 1
            [] t % 4 = 1 -> 0
            [] t % 4 = 2 -> -1
            [] t % 4 = 3 -> 0

sin(t) == CASE t % 4 = 0 -> 0
            [] t % 4 = 1 -> 1
            [] t % 4 = 2 -> 0
            [] t % 4 = 3 -> -1

\* Mutant: the branch that folds a negative remainder is missing.
wrap_to_pi_NoFold(t) == fmod(t + PI, 2 * PI) - PI

\* Mutant: the angle is clipped to the range instead of being wrapped.
wrap_to_pi_Clip(t) == IF t < -PI THEN -PI ELSE IF t > PI THEN PI ELSE t

wrap_to_pi(t) ==
    LET result == fmod(t + PI, 2 * PI)
        folded == IF result < 0 THEN result + 2 * PI ELSE result
    IN  folded - PI

\* cos and sin of half an angle given in quarter turns, i.e. of a whole
\* number of eighth turns.  The value c is stored as sign(c) * 2 * c^2,
\* which is exact: 1 -> 2, sqrt(2)/2 -> 1, 0 -> 0.
cosHalf(t) == CASE t % 8 = 0 -> 2
                [] t % 8 = 1 -> 1
                [] t % 8 = 2 -> 0
                [] t % 8 = 3 -> -1
                [] t % 8 = 4 -> -2
                [] t % 8 = 5 -> -1
                [] t % 8 = 6 -> 0
                [] t % 8 = 7 -> 1

sinHalf(t) == cosHalf(t - 2)

\* transforms3d.euler.euler2quat(0.0, 0.0, yaw): (w, x, y, z).
euler2quat(yaw) == << cosHalf(yaw), 0, 0, sinHalf(yaw) >>

\* rclpy.time.Time(seconds=t).to_msg(): whole seconds and nanoseconds.
to_msg(t) ==
    LET nanoseconds == t * (S_TO_NS \div UnitsPerSecond)
    IN  [sec |-> nanoseconds \div S_TO_NS, nanosec |-> nanoseconds % S_TO_NS]

\* ------------------------------------------------------------------ Init
Init ==
    /\ x = 0 /\ y = 0 /\ theta = 0
    /\ omega_r = 0 /\ omega_l = 0
    /\ sim_time = None
    /\ last_sim_time = None
    /\ pc = "idle"
    /\ returned = "none"
    /\ dt = 0 /\ V = 0 /\ Omega = 0 /\ quat = << >>
    /\ simQueue = << >>
    /\ published = 0
    /\ odom_pub = << >>
    /\ tf_broadcaster = << >>
    /\ clockLog = << >>

\* -------------------------------------------------------------- executor
\* Mutant: the node is spun on a multi-threaded executor, which takes a
\* subscription callback while the timer callback is running.
ExecutorFree_MultiThreaded == TRUE

\* rclpy.spin(node) runs the node on the single-threaded executor: a
\* callback is taken only when no callback is running.
ExecutorFree == pc = "idle"

\* ----------------------------------------------------------- environment
\* CoppeliaSim publishes a simulation-time sample; it waits in the
\* subscription's queue until the executor runs sim_time_callback.
SimPublish ==
    /\ published < MaxSamples
    /\ \E t \in SimTimes : simQueue' = Append(simQueue, t)
    /\ published' = published + 1
    /\ UNCHANGED << pose, inputs, last_sim_time, pc, returned, locals, outputs,
                    clockLog >>

\* ------------------------------------------------------------- callbacks

\* Mutant: the callback smooths the encoder value with the stored one.
right_wheel_callback_Smooths ==
    /\ ExecutorFree
    /\ \E data \in WheelSpeeds : omega_r' = (omega_r + data) \div 2
    /\ UNCHANGED << pose, omega_l, sim_time, last_sim_time, pc, returned, locals,
                    env, outputs, clockLog >>

right_wheel_callback ==
    /\ ExecutorFree
    /\ \E data \in WheelSpeeds : omega_r' = data
    /\ UNCHANGED << pose, omega_l, sim_time, last_sim_time, pc, returned, locals,
                    env, outputs, clockLog >>

left_wheel_callback ==
    /\ ExecutorFree
    /\ \E data \in WheelSpeeds : omega_l' = data
    /\ UNCHANGED << pose, omega_r, sim_time, last_sim_time, pc, returned, locals,
                    env, outputs, clockLog >>


\* Mutant: the callback also moves the baseline to the sample it replaces.
sim_time_callback_MovesBaseline ==
    /\ ExecutorFree
    /\ simQueue # << >>
    /\ last_sim_time' = sim_time
    /\ clockLog' = IF sim_time = None THEN clockLog
                   ELSE Append(clockLog, [kind |-> "callback", to |-> Val(sim_time),
                                          dt |-> 0])
    /\ sim_time' = Some(Head(simQueue))
    /\ simQueue' = Tail(simQueue)
    /\ UNCHANGED << pose, omega_r, omega_l, pc, returned, locals, published,
                    outputs >>

sim_time_callback ==
    /\ ExecutorFree
    /\ simQueue # << >>
    /\ sim_time' = Some(Head(simQueue))
    /\ simQueue' = Tail(simQueue)
    /\ UNCHANGED << pose, omega_r, omega_l, last_sim_time, pc, returned, locals,
                    published, outputs, clockLog >>

\* ------------------------------------------------------- update_odometry
\* The timer fires and the executor enters update_odometry.
TimerFire ==
    /\ pc = "idle"
    /\ ExecutorFree
    /\ pc' = "check"
    /\ UNCHANGED << pose, inputs, last_sim_time, returned, locals, env, outputs,
                    clockLog >>

\* Mutant: the gate only rejects a dt that is not positive.
SubThreshold_NonPositive(d) == d <= 0


\* Mutant: the gate compares the magnitude of dt with the period.
SubThreshold_Magnitude(d) == (IF d < 0 THEN -d ELSE d) < integration_period

\* Mutant: the gate also rejects a dt equal to the period.
SubThreshold_Inclusive(d) == d <= integration_period

\* The gate of line 139: too little simulation time has elapsed.
SubThreshold(d) == d < integration_period


\* Mutant: a missing simulation time is taken to be 0 and seeds the baseline.
ReturnNoTime_SeedsZero ==
    /\ pc = "check"
    /\ sim_time = None
    /\ last_sim_time' = Some(0)
    /\ clockLog' = Append(clockLog, [kind |-> "seed", to |-> 0, dt |-> 0])
    /\ pc' = "idle"
    /\ returned' = "seeded"
    /\ UNCHANGED << pose, inputs, locals, env, outputs >>

\* if self.sim_time is None: return
ReturnNoTime ==
    /\ pc = "check"
    /\ sim_time = None
    /\ pc' = "idle"
    /\ returned' = "no_time"
    /\ UNCHANGED << pose, inputs, last_sim_time, locals, env, outputs, clockLog >>

\* Mutant: the return of line 135 is missing, so the seeding tick goes on
\* to line 138 and through the gate.
SeedBaseline_FallsThrough ==
    /\ pc = "check"
    /\ sim_time # None
    /\ last_sim_time = None
    /\ last_sim_time' = sim_time
    /\ clockLog' = Append(clockLog, [kind |-> "seed", to |-> Val(sim_time), dt |-> 0])
    /\ dt' = 0
    /\ pc' = "gate"
    /\ UNCHANGED << pose, inputs, returned, V, Omega, quat, env, outputs >>

\* Mutant: the seeding tick stores the time at which the first step is due
\* instead of the current time.
SeedBaseline_StoresDueTime ==
    /\ pc = "check"
    /\ sim_time # None
    /\ last_sim_time = None
    /\ last_sim_time' = Some(Val(sim_time) + integration_period)
    /\ clockLog' = Append(clockLog, [kind |-> "seed",
                                      to |-> Val(sim_time) + integration_period,
                                      dt |-> 0])
    /\ pc' = "idle"
    /\ returned' = "seeded"
    /\ UNCHANGED << pose, inputs, locals, env, outputs >>

\* if self.last_sim_time is None: self.last_sim_time = self.sim_time; return
SeedBaseline ==
    /\ pc = "check"
    /\ sim_time # None
    /\ last_sim_time = None
    /\ last_sim_time' = sim_time
    /\ clockLog' = Append(clockLog, [kind |-> "seed", to |-> Val(sim_time), dt |-> 0])
    /\ pc' = "idle"
    /\ returned' = "seeded"
    /\ UNCHANGED << pose, inputs, locals, env, outputs >>

\* dt = self.sim_time - self.last_sim_time
ComputeDt ==
    /\ pc = "check"
    /\ sim_time # None
    /\ last_sim_time # None
    /\ dt' = Val(sim_time) - Val(last_sim_time)
    /\ pc' = "gate"
    /\ UNCHANGED << pose, inputs, last_sim_time, returned, V, Omega, quat, env,
                    outputs, clockLog >>

\* Mutant: a sub-threshold tick integrates the position before it returns
\* (the gate guards the publishing only).
ReturnSubThreshold_Integrates ==
    /\ pc = "gate"
    /\ SubThreshold(dt)
    /\ x' = x + ((wheel_radius * omega_r + wheel_radius * omega_l) \div 2) * cos(theta) * dt
    /\ y' = y + ((wheel_radius * omega_r + wheel_radius * omega_l) \div 2) * sin(theta) * dt
    /\ dt' = 0
    /\ pc' = "idle"
    /\ returned' = "sub_threshold"
    /\ UNCHANGED << theta, inputs, last_sim_time, V, Omega, quat, env, outputs,
                    clockLog >>

\* Mutant: a sub-threshold tick moves the baseline to the current time, so
\* the time it skipped is never integrated.
ReturnSubThreshold_AdvancesBaseline ==
    /\ pc = "gate"
    /\ SubThreshold(dt)
    /\ last_sim_time' = sim_time
    /\ clockLog' = Append(clockLog, [kind |-> "skip", to |-> Val(sim_time), dt |-> dt])
    /\ dt' = 0
    /\ pc' = "idle"
    /\ returned' = "sub_threshold"
    /\ UNCHANGED << pose, inputs, V, Omega, quat, env, outputs >>

\* if dt < self.integration_period: return
ReturnSubThreshold ==
    /\ pc = "gate"
    /\ SubThreshold(dt)
    /\ dt' = 0
    /\ pc' = "idle"
    /\ returned' = "sub_threshold"
    /\ UNCHANGED << pose, inputs, last_sim_time, V, Omega, quat, env, outputs,
                    clockLog >>

\* Mutant: the baseline is moved on by one integration period instead of
\* being set to the current time.
AdvanceBaseline_FixedStep ==
    /\ pc = "gate"
    /\ ~SubThreshold(dt)
    /\ last_sim_time' = Some(Val(last_sim_time) + integration_period)
    /\ clockLog' = Append(clockLog, [kind |-> "step",
                                      to |-> Val(last_sim_time) + integration_period,
                                      dt |-> dt])
    /\ pc' = "integrate"
    /\ UNCHANGED << pose, inputs, returned, locals, env, outputs >>

\* self.last_sim_time = self.sim_time
AdvanceBaseline ==
    /\ pc = "gate"
    /\ ~SubThreshold(dt)
    /\ last_sim_time' = sim_time
    /\ clockLog' = Append(clockLog, [kind |-> "step", to |-> Val(sim_time), dt |-> dt])
    /\ pc' = "integrate"
    /\ UNCHANGED << pose, inputs, returned, locals, env, outputs >>


\* Mutant: the position is assigned (=) instead of accumulated (+=).
Integrate_AssignsPosition ==
    /\ pc = "integrate"
    /\ LET v_r == wheel_radius * omega_r
           v_l == wheel_radius * omega_l
           V1 == (v_r + v_l) \div 2
           Omega1 == (v_r - v_l) \div wheel_base
       IN  /\ V' = V1
           /\ Omega' = Omega1
           /\ x' = V1 * cos(theta) * dt
           /\ y' = V1 * sin(theta) * dt
           /\ theta' = wrap_to_pi(theta + Omega1 * dt)
    /\ pc' = "publish"
    /\ UNCHANGED << inputs, last_sim_time, returned, dt, quat, env, outputs,
                    clockLog >>


\* Mutant: the angular velocity is divided by twice the wheel base.
Integrate_HalvesOmega ==
    /\ pc = "integrate"
    /\ LET v_r == wheel_radius * omega_r
           v_l == wheel_radius * omega_l
           V1 == (v_r + v_l) \div 2
           Omega1 == (v_r - v_l) \div (2 * wheel_base)
       IN  /\ V' = V1
           /\ Omega' = Omega1
           /\ x' = x + V1 * cos(theta) * dt
           /\ y' = y + V1 * sin(theta) * dt
           /\ theta' = wrap_to_pi(theta + Omega1 * dt)
    /\ pc' = "publish"
    /\ UNCHANGED << inputs, last_sim_time, returned, dt, quat, env, outputs,
                    clockLog >>

\* Mutant: cos and sin are exchanged in the position update.
Integrate_SwapsSinCos ==
    /\ pc = "integrate"
    /\ LET v_r == wheel_radius * omega_r
           v_l == wheel_radius * omega_l
           V1 == (v_r + v_l) \div 2
           Omega1 == (v_r - v_l) \div wheel_base
       IN  /\ V' = V1
           /\ Omega' = Omega1
           /\ x' = x + V1 * sin(theta) * dt
           /\ y' = y + V1 * cos(theta) * dt
           /\ theta' = wrap_to_pi(theta + Omega1 * dt)
    /\ pc' = "publish"
    /\ UNCHANGED << inputs, last_sim_time, returned, dt, quat, env, outputs,
                    clockLog >>

\* v_r, v_l, V, Omega and the Euler step of x, y, theta.
Integrate ==
    /\ pc = "integrate"
    /\ LET v_r == wheel_radius * omega_r
           v_l == wheel_radius * omega_l
           V1 == (v_r + v_l) \div 2
           Omega1 == (v_r - v_l) \div wheel_base
       IN  /\ V' = V1
           /\ Omega' = Omega1
           /\ x' = x + V1 * cos(theta) * dt
           /\ y' = y + V1 * sin(theta) * dt
           /\ theta' = wrap_to_pi(theta + Omega1 * dt)
    /\ pc' = "publish"
    /\ UNCHANGED << inputs, last_sim_time, returned, dt, quat, env, outputs,
                    clockLog >>

\* Mutant: the Odometry message is published only when the robot moves.
PublishOdom_OnlyWhenMoving ==
    /\ pc = "publish"
    /\ quat' = euler2quat(theta)
    /\ odom_pub' = IF V = 0 /\ Omega = 0
                   THEN odom_pub
                   ELSE Append(odom_pub,
                          [stamp |-> to_msg(Val(sim_time)),
                           frame_id |-> "odom",
                           child_frame_id |-> "base_footprint",
                           position |-> << x, y, 0 >>,
                           orientation |-> [x |-> quat'[2], y |-> quat'[3],
                                            z |-> quat'[4], w |-> quat'[1]],
                           linear_x |-> V,
                           angular_z |-> Omega])
    /\ pc' = "broadcast"
    /\ UNCHANGED << pose, inputs, last_sim_time, returned, dt, V, Omega, env,
                    tf_broadcaster, clockLog >>

\* Build the Odometry message and publish it on /odom.
PublishOdom ==
    /\ pc = "publish"
    /\ quat' = euler2quat(theta)
    /\ odom_pub' = Append(odom_pub,
          [stamp |-> to_msg(Val(sim_time)),
           frame_id |-> "odom",
           child_frame_id |-> "base_footprint",
           position |-> << x, y, 0 >>,
           orientation |-> [x |-> quat'[2], y |-> quat'[3], z |-> quat'[4],
                            w |-> quat'[1]],
           linear_x |-> V,
           angular_z |-> Omega])
    /\ pc' = "broadcast"
    /\ UNCHANGED << pose, inputs, last_sim_time, returned, dt, V, Omega, env,
                    tf_broadcaster, clockLog >>

\* Build the TransformStamped and send it; the callback returns.
SendTransform ==
    /\ pc = "broadcast"
    /\ tf_broadcaster' = Append(tf_broadcaster,
          [stamp |-> to_msg(Val(sim_time)),
           frame_id |-> "odom",
           child_frame_id |-> "base_footprint",
           translation |-> << x, y, 0 >>,
           rotation |-> [x |-> quat[2], y |-> quat[3], z |-> quat[4],
                         w |-> quat[1]]])
    /\ dt' = 0 /\ V' = 0 /\ Omega' = 0 /\ quat' = << >>
    /\ pc' = "idle"
    /\ returned' = "integrated"
    /\ UNCHANGED << pose, inputs, last_sim_time, env, odom_pub, clockLog >>

update_odometry ==
    \/ TimerFire
    \/ ReturnNoTime
    \/ SeedBaseline
    \/ ComputeDt
    \/ ReturnSubThreshold
    \/ AdvanceBaseline
    \/ Integrate
    \/ PublishOdom
    \/ SendTransform

Next ==
    \/ SimPublish
    \/ right_wheel_callback
    \/ left_wheel_callback
    \/ sim_time_callback
    \/ update_odometry

Spec == Init /\ [][Next]_vars


\* The timer of line 103 keeps firing and a tick that has started runs to
\* its return: a step of update_odometry that stays possible is taken.
FairSpec == Spec /\ WF_vars(update_odometry)

\* ---------------------------------------------------------------- claims
\* Positions of update_odometry at which the gate has not been passed.
BeforeGate == {"idle", "check", "gate"}

\* A step of the running tick (the only steps that move pc).
TickStep == pc' # pc

\* C1: the tick that runs with sim_time set and last_sim_time unset returns at
\* once: it sets last_sim_time to the current sim_time, leaves (x, y, theta)
\* unchanged, publishes no odometry message and sends no transform, whatever
\* the wheel speeds are.
C1_FirstTickSeeds ==
    [][ (pc = "check" /\ TickStep /\ sim_time # None /\ last_sim_time = None)
          => /\ last_sim_time' = sim_time
             /\ sim_time' = sim_time
             /\ pose' = pose
             /\ outputs' = outputs
             /\ pc' = "idle" ]_vars

\* C1 witness: the node has just been seeded while a wheel was turning; the
\* pose is still the start pose and nothing has been published.
C1_Witness ==
    /\ returned = "seeded"
    /\ pc = "idle"
    /\ last_sim_time = sim_time
    /\ omega_r # 0 /\ omega_l # 0
    /\ pose = << 0, 0, 0 >>
    /\ outputs = << << >>, << >> >>

\* C2: every step taken while the gate has not been passed (sim_time unset,
\* baseline being seeded, or dt < integration_period) leaves (x, y, theta)
\* unchanged and publishes nothing; a NotReady tick consists of such steps
\* only, so the pose after it is the pose before it.
C2_NoOpTicks ==
    [][ (pc \in BeforeGate /\ pc' \in BeforeGate)
          => (pose' = pose /\ outputs' = outputs) ]_vars

\* C2 witness: a tick has just returned at the gate with 0 < dt <
\* integration_period elapsed while both wheels were turning forward.
C2_Witness ==
    /\ returned = "sub_threshold"
    /\ pc = "idle"
    /\ Val(sim_time) > Val(last_sim_time)
    /\ omega_r > 0 /\ omega_l > 0

\* C3: a seeded tick that sees dt < integration_period returns without
\* touching last_sim_time, and the dt a tick brings to the gate is always
\* sim_time - last_sim_time, so the next step's dt is measured from the
\* older baseline and spans the time of the skipped ticks.
C3_SubThresholdKeepsBaseline ==
    /\ [](pc = "gate" => dt = Val(sim_time) - Val(last_sim_time))
    /\ [][ (pc = "gate" /\ TickStep /\ dt < integration_period)
             => (last_sim_time' = last_sim_time /\ pc' = "idle") ]_vars

\* C3 witness: the tick before this one was skipped at the gate, and this
\* one integrates a dt that reaches back to the baseline set before the
\* skipped tick.
C3_Witness ==
    /\ pc = "integrate"
    /\ returned = "sub_threshold"
    /\ Len(clockLog) >= 2
    /\ dt = clockLog[Len(clockLog)].to - clockLog[Len(clockLog) - 1].to
    /\ dt >= integration_period

\* The sum of the dt values of the integration steps logged so far.
RECURSIVE SumDt(_)
SumDt(log) == IF log = << >> THEN 0 ELSE log[Len(log)].dt + SumDt(SubSeq(log, 1, Len(log) - 1))

\* C4: last_sim_time is unset until the seeding tick; afterwards every
\* assignment to it but the first is an integration step whose dt equals the
\* new baseline minus the old one, so the dt values integrated add up to
\* last_sim_time minus the seeded baseline: no interval of simulation time is
\* counted twice or dropped, also when samples arrive while a tick runs.
C4_NoDriftNoDoubleCount ==
    /\ (last_sim_time = None) = (clockLog = << >>)
    /\ clockLog # << >> =>
          /\ clockLog[1].kind = "seed"
          /\ last_sim_time = Some(clockLog[Len(clockLog)].to)
          /\ \A i \in 2 .. Len(clockLog) :
                /\ clockLog[i].kind = "step"
                /\ clockLog[i].dt = clockLog[i].to - clockLog[i - 1].to
          /\ SumDt(clockLog) = Val(last_sim_time) - clockLog[1].to

\* C4 witness: an integration step is under way, its dt already taken and
\* the baseline advanced, while a different simulation-time sample has
\* arrived and waits for the tick to return.
C4_Witness ==
    /\ pc = "integrate"
    /\ Len(clockLog) >= 2
    /\ simQueue # << >>
    /\ Head(simQueue) # Val(sim_time)

\* C5: once sim_time and last_sim_time are set, every integration step that
\* is performed uses dt >= integration_period.
C5_StepDtAtLeastPeriod ==
    /\ pc \in {"integrate", "publish", "broadcast"} => dt >= integration_period
    /\ \A i \in 1 .. Len(clockLog) :
          clockLog[i].kind = "step" => clockLog[i].dt >= integration_period

\* C5 witness: a step integrates exactly integration_period, right after a
\* tick that the gate turned away.
C5_Witness ==
    /\ pc = "integrate"
    /\ dt = integration_period
    /\ returned = "sub_threshold"

\* Both clock attributes are set and the baseline is not ahead of the time.
BaselineNotAhead ==
    (sim_time # None /\ last_sim_time # None) => Val(last_sim_time) <= Val(sim_time)

\* A simulation-time sample smaller than the one it replaces is stored.
TimeRegresses ==
    sim_time # None /\ sim_time' # None /\ Val(sim_time') < Val(sim_time)

\* C6 as claimed: in every reachable state in which both are set,
\* last_sim_time <= sim_time, after any sequence of samples and ticks.
C6_Original == BaselineNotAhead

\* C6 amended: last_sim_time <= sim_time holds at the start and is kept by
\* every step that does not store a simulation-time sample smaller than the
\* one before; so it holds as long as the samples are non-decreasing.
C6_BaselineNotAheadWhileMonotone ==
    [][ (BaselineNotAhead /\ ~TimeRegresses) => BaselineNotAhead' ]_vars

\* C6 witness: after a sub-threshold tick on non-decreasing samples the
\* baseline is strictly behind the time.
C6_Witness ==
    /\ returned = "sub_threshold"
    /\ pc = "idle"
    /\ Val(last_sim_time) < Val(sim_time)
    /\ \A i \in 1 .. Len(simQueue) : Val(sim_time) <= simQueue[i]

\* C7 as claimed: the stored heading lies in (-pi, pi], -pi excluded.
C7_Original == -PI < theta /\ theta <= PI

WrapInputs == -WrapRange .. WrapRange

\* C7 amended: wrap_to_pi returns a value in the closed range [-pi, pi] for
\* every input angle (-pi is returned, for the inputs pi and -pi among
\* others), so theta lies in [-pi, pi] in every reachable state.
C7_HeadingInClosedRange ==
    /\ -PI <= theta /\ theta <= PI
    /\ \A a \in WrapInputs : -PI <= wrap_to_pi(a) /\ wrap_to_pi(a) <= PI

\* C7 witness: an integration step has just wrapped the heading to -pi.
C7_Witness ==
    /\ pc = "publish"
    /\ Omega # 0
    /\ theta = -PI

\* C8: wrap_to_pi(a) differs from a by a whole number of turns, for the
\* bounded inputs and for the angle theta + Omega * dt of every integration
\* step.
C8_WrapCongruent ==
    /\ [](\A a \in WrapInputs : (wrap_to_pi(a) - a) % (2 * PI) = 0)
    /\ [][ (pc = "integrate" /\ pc' = "publish")
             => (theta' - (theta + Omega' * dt)) % (2 * PI) = 0 ]_vars

\* C8 witness: a step has just wrapped a heading more than two turns below
\* zero to a value other than zero.
C8_Witness ==
    /\ pc = "publish"
    /\ Omega * dt < -(2 * (2 * PI))
    /\ theta # 0

\* Number of integration steps whose baseline advance has happened.
NumSteps == Cardinality({i \in 1 .. Len(clockLog) : clockLog[i].kind = "step"})

\* C9: between ticks the number of odometry messages, the number of
\* transforms and the number of baseline advances after seeding are equal;
\* within a tick that passed the gate the advance comes first, then the one
\* odometry message, then the one transform.
C9_OneOutputPerStep ==
    /\ pc \in BeforeGate =>
          Len(odom_pub) = NumSteps /\ Len(tf_broadcaster) = NumSteps
    /\ pc \in {"integrate", "publish"} =>
          Len(odom_pub) = NumSteps - 1 /\ Len(tf_broadcaster) = NumSteps - 1
    /\ pc = "broadcast" =>
          Len(odom_pub) = NumSteps /\ Len(tf_broadcaster) = NumSteps - 1

\* C9 witness: two steps with the wheels at rest have produced two messages
\* and two transforms, and the tick after them was turned away at the gate.
C9_Witness ==
    /\ pc = "idle"
    /\ returned = "sub_threshold"
    /\ NumSteps = 2
    /\ Len(odom_pub) = 2
    /\ Len(tf_broadcaster) = 2
    /\ odom_pub[2].linear_x = 0 /\ odom_pub[2].angular_z = 0

\* The time a stamp denotes, in nanoseconds.
StampNs(stamp) == stamp.sec * S_TO_NS + stamp.nanosec

\* C10: the i-th odometry message and the i-th transform carry the same
\* stamp, which denotes the simulation time the i-th step advanced
\* last_sim_time to; both carry frame 'odom' and child frame
\* 'base_footprint', and the same position and rotation.
C10_OutputStamp ==
    /\ \A i \in 1 .. Len(odom_pub) :
          /\ i + 1 <= Len(clockLog)
          /\ StampNs(odom_pub[i].stamp) = clockLog[i + 1].to * (S_TO_NS \div UnitsPerSecond)
          /\ odom_pub[i].stamp.nanosec \in 0 .. S_TO_NS - 1
          /\ odom_pub[i].frame_id = "odom"
          /\ odom_pub[i].child_frame_id = "base_footprint"
    /\ \A i \in 1 .. Len(tf_broadcaster) :
          /\ i <= Len(odom_pub)
          /\ tf_broadcaster[i].stamp = odom_pub[i].stamp
          /\ tf_broadcaster[i].frame_id = "odom"
          /\ tf_broadcaster[i].child_frame_id = "base_footprint"
          /\ tf_broadcaster[i].translation = odom_pub[i].position
          /\ tf_broadcaster[i].rotation = odom_pub[i].orientation

\* C10 witness: a tick has returned after publishing the message and the
\* transform of a moved and turned robot, and a newer simulation-time
\* sample, received no later than that, still waits for its callback.
C10_Witness ==
    /\ pc = "idle"
    /\ returned = "integrated"
    /\ Len(tf_broadcaster) >= 1
    /\ tf_broadcaster[1].translation[1] # 0
    /\ tf_broadcaster[1].rotation.z # 0
    /\ simQueue # << >>
    /\ Head(simQueue) > Val(sim_time)

\* C11: with omega_r = omega_l = 0, a tick that passes the gate advances
\* last_sim_time to the current sim_time, leaves (x, y, theta) unchanged in
\* every one of its steps, and still publishes one odometry message and
\* sends one transform.
C11_ZeroInputFixedPoint ==
    [][ (omega_r = 0 /\ omega_l = 0 /\ TickStep) =>
          /\ pc = "gate" /\ dt >= integration_period =>
                /\ pc' = "integrate"
                /\ last_sim_time' = sim_time
                /\ last_sim_time' # last_sim_time
          /\ pc = "integrate" => pc' = "publish" /\ pose' = pose
          /\ pc = "publish" =>
                /\ pc' = "broadcast" /\ pose' = pose
                /\ Len(odom_pub') = Len(odom_pub) + 1
          /\ pc = "broadcast" =>
                /\ pc' = "idle" /\ pose' = pose
                /\ Len(tf_broadcaster') = Len(tf_broadcaster) + 1 ]_vars

\* C11 witness: after a first step that moved the robot, a second step with
\* both wheels at rest has advanced the baseline and published the same
\* position and heading again.
C11_Witness ==
    /\ pc = "idle"
    /\ returned = "integrated"
    /\ omega_r = 0 /\ omega_l = 0
    /\ Len(odom_pub) = 2 /\ Len(tf_broadcaster) = 2
    /\ x # 0
    /\ odom_pub[2].position = odom_pub[1].position
    /\ odom_pub[2].orientation = odom_pub[1].orientation
    /\ odom_pub[2].linear_x = 0 /\ odom_pub[2].angular_z = 0
    /\ Len(clockLog) = 3
    /\ clockLog[3].to > clockLog[2].to

\* C12: when omega_r = -omega_l at a tick that passes the gate, the step
\* computes V = 0 and Omega = 2 * wheel_radius * omega_r / wheel_base,
\* leaves x and y unchanged, and turns theta to an angle in [-pi, pi] that
\* is theta + Omega * dt up to whole turns.
C12_PureRotation ==
    [][ (pc = "integrate" /\ TickStep /\ omega_r = -omega_l) =>
          /\ V' = 0
          /\ Omega' * wheel_base = 2 * wheel_radius * omega_r
          /\ x' = x /\ y' = y
          /\ (theta' - (theta + Omega' * dt)) % (2 * PI) = 0
          /\ -PI <= theta' /\ theta' <= PI ]_vars

\* C12 witness: the first step, with the wheels turning against each other,
\* has turned the robot on the spot at the start position.
C12_Witness ==
    /\ pc = "publish"
    /\ omega_r > 0 /\ omega_l = -omega_r
    /\ V = 0
    /\ Omega * wheel_base = 2 * wheel_radius * omega_r
    /\ x = 0 /\ y = 0
    /\ theta # 0
    /\ Len(clockLog) = 2

\* C13: from the start pose (0, 0, 0) with omega_r = omega_l = w > 0, one
\* integration step with elapsed time dt gives x = wheel_radius * w * dt,
\* y = 0 and theta = 0, the angular velocity being 0.
C13_StraightLine ==
    [][ (pc = "integrate" /\ TickStep /\ pose = << 0, 0, 0 >>
           /\ omega_r = omega_l /\ omega_r > 0) =>
          /\ x' = wheel_radius * omega_r * dt
          /\ y' = 0
          /\ theta' = 0
          /\ Omega' = 0 ]_vars

\* C13 witness: the first step, over more than one integration period with
\* both wheels turning forward at the same speed, has moved the robot along
\* the x axis.
C13_Witness ==
    /\ pc = "publish"
    /\ Len(clockLog) = 2
    /\ omega_r = omega_l /\ omega_r > 0
    /\ dt > integration_period
    /\ x = wheel_radius * omega_r * dt
    /\ x > 0 /\ y = 0 /\ theta = 0

\* C14: as long as sim_time is unset, the pose is the start pose (0, 0, 0),
\* last_sim_time is unset, nothing has been published, and every tick has
\* returned at the first test without passing it, whatever wheel speeds
\* have been stored.
C14_NoTimeNoIntegration ==
    sim_time = None =>
        /\ pose = << 0, 0, 0 >>
        /\ last_sim_time = None
        /\ odom_pub = << >> /\ tf_broadcaster = << >>
        /\ pc \in {"idle", "check"}
        /\ returned \in {"none", "no_time"}

\* C14 witness: a tick has run and returned while both wheels were turning
\* and no simulation-time callback had run, a sample still waiting.
C14_Witness ==
    /\ sim_time = None
    /\ returned = "no_time"
    /\ pc = "idle"
    /\ omega_r # 0 /\ omega_l # 0
    /\ simQueue # << >>

\* C15: a step that changes omega_r, omega_l or sim_time is a callback step
\* between ticks that changes nothing else of the node's state, and
\* last_sim_time changes only in a step of update_odometry: the seeding
\* return or the advance of a tick that passed the gate.
C15_CallbacksOwnCell ==
    [][ /\ omega_r' # omega_r =>
              /\ pc = "idle" /\ pc' = "idle"
              /\ UNCHANGED << pose, omega_l, sim_time, last_sim_time, outputs >>
        /\ omega_l' # omega_l =>
              /\ pc = "idle" /\ pc' = "idle"
              /\ UNCHANGED << pose, omega_r, sim_time, last_sim_time, outputs >>
        /\ sim_time' # sim_time =>
              /\ pc = "idle" /\ pc' = "idle"
              /\ UNCHANGED << pose, omega_r, omega_l, last_sim_time, outputs >>
        /\ last_sim_time' # last_sim_time =>
              \/ pc = "check" /\ pc' = "idle" /\ last_sim_time = None
              \/ pc = "gate" /\ pc' = "integrate" /\ dt >= integration_period
      ]_vars

\* C15 witness: between ticks, after a step moved and turned the robot, the
\* callbacks have stored different wheel speeds and a simulation time ahead
\* of the baseline.
C15_Witness ==
    /\ pc = "idle"
    /\ returned = "integrated"
    /\ x # 0 /\ theta # 0
    /\ omega_r < 0 /\ omega_l > 0
    /\ Val(sim_time) > Val(last_sim_time)
    /\ Len(odom_pub) = 1
    /\ odom_pub[1].linear_x > 0

\* Twice the wheel's linear speed that a published twist stands for.
TwiceRightSpeed(m) == 2 * m.linear_x + wheel_base * m.angular_z
TwiceLeftSpeed(m) == 2 * m.linear_x - wheel_base * m.angular_z

\* C16: the stored wheel speeds are always sample values as received (or
\* the initial 0), never a blend of several samples; a tick does not change
\* them; and an integration step computes V and Omega from the values
\* stored when it runs, integrates them over the whole dt, and publishes
\* that twist, so earlier values of a wheel have no effect.
C16_LastWriteWins ==
    /\ [](omega_r \in WheelSpeeds /\ omega_l \in WheelSpeeds)
    /\ [][ TickStep => (omega_r' = omega_r /\ omega_l' = omega_l) ]_vars
    /\ [][ (pc = "integrate" /\ TickStep) =>
             /\ 2 * V' = wheel_radius * omega_r + wheel_radius * omega_l
             /\ Omega' * wheel_base = wheel_radius * omega_r - wheel_radius * omega_l
             /\ x' = x + V' * cos(theta) * dt
             /\ y' = y + V' * sin(theta) * dt
             /\ (theta' - (theta + Omega' * dt)) % (2 * PI) = 0 ]_vars
    /\ [][ (pc = "publish" /\ TickStep) =>
             /\ Len(odom_pub') = Len(odom_pub) + 1
             /\ TwiceRightSpeed(odom_pub'[Len(odom_pub')]) = 2 * wheel_radius * omega_r
             /\ TwiceLeftSpeed(odom_pub'[Len(odom_pub')]) = 2 * wheel_radius * omega_l ]_vars

\* C16 witness: two steps have been published; the right wheel's speed was
\* overwritten between them, the left wheel's non-zero speed was used by
\* both.
C16_Witness ==
    /\ pc = "idle"
    /\ Len(odom_pub) = 2
    /\ TwiceLeftSpeed(odom_pub[2]) = TwiceLeftSpeed(odom_pub[1])
    /\ TwiceLeftSpeed(odom_pub[1]) # 0
    /\ TwiceRightSpeed(odom_pub[2]) # TwiceRightSpeed(odom_pub[1])
    /\ TwiceRightSpeed(odom_pub[2]) = 2 * wheel_radius * omega_r

\* C17: once set, last_sim_time stays set and never decreases, also when
\* sim_time goes backwards; a tick passes the gate only when sim_time has
\* reached last_sim_time + integration_period; and the stamps of successive
\* odometry messages are strictly increasing.
C17_BaselineMonotone ==
    /\ [][ last_sim_time # None =>
             /\ last_sim_time' # None
             /\ Val(last_sim_time') >= Val(last_sim_time) ]_vars
    /\ [][ (pc = "gate" /\ pc' = "integrate") =>
             Val(sim_time) >= Val(last_sim_time) + integration_period ]_vars
    /\ [](\A i \in 1 .. Len(odom_pub) - 1 :
             StampNs(odom_pub[i].stamp) < StampNs(odom_pub[i + 1].stamp))

\* C17 witness: after a published step the simulation time has jumped back
\* below the baseline and the next tick was turned away at the gate, the
\* baseline staying where the step put it.
C17_Witness ==
    /\ pc = "idle"
    /\ returned = "sub_threshold"
    /\ Len(odom_pub) = 1
    /\ Val(sim_time) < Val(last_sim_time)
    /\ StampNs(odom_pub[1].stamp) = Val(last_sim_time) * (S_TO_NS \div UnitsPerSecond)

\* The node is seeded and at least integration_period has elapsed.
Ready ==
    /\ sim_time # None
    /\ last_sim_time # None
    /\ Val(sim_time) - Val(last_sim_time) >= integration_period

\* C18: a tick that runs while the node is seeded and sim_time -
\* last_sim_time >= integration_period passes the gate and, the timer and
\* the tick being scheduled fairly, returns after sending its transform;
\* and whenever that much time has elapsed, a step follows unless a smaller
\* simulation-time sample takes the elapsed time away first, so sub-threshold
\* ticks cannot postpone integration forever.
C18_Progress ==
    /\ [][ (pc = "check" /\ TickStep /\ Ready) => pc' = "gate" ]_vars
    /\ [][ (pc = "gate" /\ TickStep /\ dt >= integration_period) =>
             pc' = "integrate" ]_vars
    /\ \A n \in 0 .. MaxSamples :
          (pc = "check" /\ Ready /\ NumSteps = n)
             ~> (pc = "idle" /\ returned = "integrated" /\ NumSteps = n + 1
                   /\ Len(odom_pub) = n + 1 /\ Len(tf_broadcaster) = n + 1)
    /\ \A n \in 0 .. MaxSamples :
          (Ready /\ NumSteps = n) ~> (NumSteps > n \/ ~Ready)

\* C18 witness: a tick is running with exactly integration_period elapsed,
\* right after a tick that was turned away at the gate.
C18_Witness ==
    /\ pc = "check"
    /\ Ready
    /\ Val(sim_time) - Val(last_sim_time) = integration_period
    /\ returned = "sub_threshold"
====
